---- MODULE Spec2Model ----
(***************************************************************************)
(* Model of the chat server of web-app-demo-backend: ChatServer            *)
(* (chat/mod.rs) with its two maps, histories and broadcasts, the tokio    *)
(* broadcast channels the second map holds, the BroadcastStream handles    *)
(* join_chat hands out, and the websocket connection handler               *)
(* (services.rs) that drives the server for one connection.                *)
(*                                                                         *)
(* Every DashMap operation, every Mutex critical section and every         *)
(* operation on a broadcast channel is one atomic step; a call of a        *)
(* ChatServer method is the sequence of its steps, interleaved with the    *)
(* steps of the other callers.                                             *)
(***************************************************************************)
EXTENDS Naturals, Sequences, FiniteSets, TLC

\* Bounds of the model: the events posted and the streams made in a run.
MaxEvents == 2
MaxStreams == 2

\* Bound of the model of a subscriber that falls behind: the events posted.
MaxLagEvents == 18

\* tokio::sync::broadcast::channel(16)
Capacity == 16

\* HTTP status codes of EndpointErrors::status_code
OK == 200
NOT_FOUND == 404
INTERNAL_SERVER_ERROR == 500

\* The chat ids in use, and the concurrent callers of ChatServer.
Rooms == {1, 2}
Procs == {1, 2}

VARIABLES
    histories,   \* ChatServer.histories: ChatId -> Vec<ChatMessage>
    broadcasts,  \* ChatServer.broadcasts: ChatId -> Sender (a channel id)
    channels,    \* every broadcast channel ever created: [sent, rx_cnt]
    poisoned,    \* the rooms whose history Mutex is poisoned
    streams,     \* the live BroadcastStream handles: id -> [chat_id, the
                 \*   channel chan, the position next, the holder owner
                 \*   (0: a caller outside services.rs), and as history the
                 \*   items received]
    nextStream,  \* the id of the next BroadcastStream
    pc,          \* where each caller is
    local,       \* each caller's local variables
    ws,          \* each caller's websocket connection, if it serves one
    nextEvent,   \* the event id of the next ChatMessage
    referenced,  \* history: rooms send_message or join_chat was called for
    posted,      \* history: the messages whose send_message returned Ok
    failed       \* history: the messages whose send_message returned Err

vars == <<histories, broadcasts, channels, poisoned, streams, nextStream, pc,
          local, ws, nextEvent, referenced, posted, failed>>

server == <<histories, broadcasts, channels, poisoned>>
ghosts == <<nextEvent, referenced, posted, failed>>

----------------------------------------------------------------------------
\* Values

\* ChatMessage: the fields the server looks at.
ChatMessage(event_id, chat_id) == [event_id |-> event_id, chat_id |-> chat_id]

NoResult == [kind |-> "None"]

\* The locals of a caller: the parameters chat_id or message, the sender
\* broadcast_message cloned, the result get_chat_history returned, and as
\* history of a send_message call the messages whose send_message had
\* returned Ok and the streams that were attached to the room when it began.
NoLocal == [chat_id |-> 0, message |-> ChatMessage(0, 0), sender |-> 0,
            result |-> NoResult, before |-> {}, audience |-> {}]
NoWs == [chat_id |-> 0, broadcast |-> 0]

\* Result values of the ChatServer methods.
OkHistory(history) == [kind |-> "History", history |-> history]

\* chat_not_found with a chat id of its own
chat_not_found_nil(chat_id) == [kind |-> "ChatNotFound", chat_id |-> 0]

\* ChatServerErrors::chat_not_found
chat_not_found(chat_id) == [kind |-> "ChatNotFound", chat_id |-> chat_id]

\* ChatServerErrors::lock_poisened
lock_poisened(message) == [kind |-> "LockPoisoned", message |-> message]

\* impl From<ChatServerErrors> for EndpointErrors
EndpointErrors_from(value) ==
    IF value.kind = "LockPoisoned"
    THEN [kind |-> "InternalServerError"]
    ELSE [kind |-> "ChatNotFound", chat_id |-> value.chat_id]

\* EndpointErrors::status_code
status_code(self) ==
    IF self.kind = "InternalServerError" THEN INTERNAL_SERVER_ERROR ELSE NOT_FOUND

\* services::get_chat_history: the status of the response to a result of
\* ChatServer::get_chat_history
get_chat_history_status(res) ==
    IF res.kind = "History" THEN OK ELSE status_code(EndpointErrors_from(res))

IsPrefix(s, t) == Len(s) <= Len(t) /\ SubSeq(t, 1, Len(s)) = s

Range(f) == {f[x] : x \in DOMAIN f}

RECURSIVE Count(_, _)
Count(s, x) ==
    IF s = <<>> THEN 0
    ELSE (IF Head(s) = x THEN 1 ELSE 0) + Count(Tail(s), x)

----------------------------------------------------------------------------
\* DashMap and Vec

\* An or_default that puts the default in whatever is there
or_default_resets(map, k) ==
    [x \in DOMAIN map \cup {k} |-> IF x = k THEN <<>> ELSE map[x]]

\* An or_default that makes no entry
or_default_absent(map, k) == map

\* DashMap::entry(k).or_default(), for histories
or_default(map, k) == IF k \in DOMAIN map THEN map ELSE map @@ (k :> <<>>)

\* An or_insert that puts v in whatever is there: DashMap::insert
or_insert_replaces(map, k, v) ==
    [x \in DOMAIN map \cup {k} |-> IF x = k THEN v ELSE map[x]]

\* DashMap::entry(k).or_insert(v)
or_insert(map, k, v) == IF k \in DOMAIN map THEN map ELSE map @@ (k :> v)

\* DashMap::remove(k)
remove(map, k) == [x \in DOMAIN map \ {k} |-> map[x]]

\* A push that leaves the Vec as it is
push_nothing(vec, m) == vec

\* A push at the front: Vec::insert(0, m)
push_front(vec, m) == <<m>> \o vec

\* Vec::push
push(vec, m) == Append(vec, m)

\* One key for every message
key_of_first(message) == 1

\* The key send_message and broadcast_message look a message up under.
key_of(message) == message.chat_id

----------------------------------------------------------------------------
\* tokio::sync::broadcast

\* broadcast::channel(16): a channel nothing was sent to; the receiver that
\* comes with it is dropped at once.
new_channel == [sent |-> <<>>, rx_cnt |-> 0]

\* A send that puts the value in front of what the channel holds
send_front(ch, m) ==
    IF ch.rx_cnt = 0 THEN ch ELSE [ch EXCEPT !.sent = <<m>> \o ch.sent]

\* A send that stores nothing
send_nothing(ch, m) == ch

\* A send that stores the value whether or not there is a receiver
send_always(ch, m) == [ch EXCEPT !.sent = push(ch.sent, m)]

\* Sender::send: with no receiver the value is handed back and not stored.
send(ch, m) ==
    IF ch.rx_cnt = 0 THEN ch ELSE [ch EXCEPT !.sent = push(ch.sent, m)]

\* Sender::subscribe: one more receiver
subscribe(ch) == [ch EXCEPT !.rx_cnt = ch.rx_cnt + 1]

\* A subscribe whose receiver starts at the oldest value
subscribe_next_oldest(ch) == 0

\* Sender::subscribe: the new receiver starts at the tail
subscribe_next(ch) == Len(ch.sent)

\* A drop that leaves the receiver counted
drop_receiver_counted(ch) == ch

\* Drop for Receiver
drop_receiver(ch) == [ch EXCEPT !.rx_cnt = ch.rx_cnt - 1]

\* A receiver_count that sees no receiver
receiver_count_none(ch) == 0

\* Sender::receiver_count
receiver_count(ch) == ch.rx_cnt

\* A Sender of channel c is alive: the one in the map, or a clone a caller
\* holds in broadcast_message.
sender_alive(c) ==
    \/ c \in Range(broadcasts)
    \/ \E p \in Procs : local[p].sender = c

\* A recv that skips what was lost and goes on with the oldest value kept
next_item_silent(s) ==
    LET ch == channels[s.chan]
        tail == Len(ch.sent)
        from == IF tail - s.next > Capacity THEN tail - Capacity ELSE s.next
    IN  IF from < tail
        THEN [kind |-> "Message", msg |-> ch.sent[from + 1]]
        ELSE [kind |-> "Pending"]

\* A recv from a channel that keeps every value for every receiver
next_item_unbounded(s) ==
    IF s.next < Len(channels[s.chan].sent)
    THEN [kind |-> "Message", msg |-> channels[s.chan].sent[s.next + 1]]
    ELSE [kind |-> "Pending"]

\* Receiver::recv as BroadcastStream::poll_next sees it: what the stream s
\* yields now. "Pending" is no item.
next_item(s) ==
    LET ch == channels[s.chan]
        tail == Len(ch.sent)
    IN  IF tail - s.next > Capacity
        THEN [kind |-> "Lagged", missed |-> (tail - Capacity) - s.next]
        ELSE IF s.next < tail
        THEN [kind |-> "Message", msg |-> ch.sent[s.next + 1]]
        ELSE IF sender_alive(s.chan)
        THEN [kind |-> "Pending"]
        ELSE [kind |-> "Closed"]

\* A receiver that goes on at the tail after it lagged
next_after_restart(s, item) ==
    IF item.kind = "Lagged" THEN Len(channels[s.chan].sent)
    ELSE IF item.kind = "Message" THEN s.next + 1
    ELSE s.next

\* The position of the stream after it yielded item
next_after(s, item) ==
    IF item.kind = "Lagged" THEN s.next + item.missed
    ELSE IF item.kind = "Message" THEN s.next + 1
    ELSE s.next

\* The events the stream s has yet to yield, as things stand.
pending(s) ==
    LET ch == channels[s.chan]
        tail == Len(ch.sent)
        from == IF tail - s.next > Capacity THEN tail - Capacity ELSE s.next
    IN  SubSeq(ch.sent, from + 1, tail)

----------------------------------------------------------------------------
\* State of the callers

Init ==
    /\ histories = <<>>
    /\ broadcasts = <<>>
    /\ channels = <<>>
    /\ poisoned = {}
    /\ streams = <<>>
    /\ nextStream = 1
    /\ pc = [p \in Procs |-> "idle"]
    /\ local = [p \in Procs |-> NoLocal]
    /\ ws = [p \in Procs |-> NoWs]
    /\ referenced = {}
    /\ posted = {}
    /\ failed = {}
    /\ nextEvent = 1

\* The streams attached to room r
attached(r) == {s \in DOMAIN streams : streams[s].chat_id = r}

\* A caller that serves no websocket connection and is in no call
free(p) == pc[p] = "idle" /\ ws[p] = NoWs

\* The caller goes on at label
goto(p, label) == pc' = [pc EXCEPT ![p] = label]

\* The call of p returns: to the connection's loop, or to a caller that is
\* free again.
return(p) ==
    /\ pc' = [pc EXCEPT ![p] = IF ws[p] = NoWs THEN "idle" ELSE "ws_loop"]
    /\ local' = [local EXCEPT ![p] = NoLocal]

\* The call of p returns an error: the connection's loop breaks on it.
return_err(p) ==
    /\ pc' = [pc EXCEPT ![p] = IF ws[p] = NoWs THEN "idle" ELSE "ws_part"]
    /\ local' = [local EXCEPT ![p] = NoLocal]

\* A lock that is never found poisoned
is_poisoned_never(chat_id) == FALSE

\* A lock that is poisoned as soon as any lock is
is_poisoned_any(chat_id) == poisoned # {}

\* Mutex::lock on the history of the room returns Err(PoisonError): every
\* room has a Mutex of its own.
is_poisoned(chat_id) == chat_id \in poisoned

----------------------------------------------------------------------------
\* ChatServer::send_message

\* let shared_history = self.histories.entry(message.chat_id).or_default().clone();
send_message_entry(p, message) ==
    /\ histories' = or_default(histories, key_of(message))
    /\ local' = [local EXCEPT ![p] =
                    [NoLocal EXCEPT !.chat_id = key_of(message),
                                    !.message = message,
                                    !.before = posted,
                                    !.audience = attached(message.chat_id)]]
    /\ goto(p, "sm_lock")
    /\ nextEvent' = nextEvent + 1
    /\ referenced' = referenced \cup {message.chat_id}
    /\ UNCHANGED <<broadcasts, channels, poisoned, streams, nextStream, ws,
                   posted, failed>>

\* A caller calls send_message with a fresh event for room r.
send_message(p, r) ==
    /\ free(p)
    /\ nextEvent <= MaxEvents
    /\ send_message_entry(p, ChatMessage(nextEvent, r))

\* shared_history.lock()?.push(message.clone());
\* a poisoned lock: .map_err(|_| ChatServerErrors::lock_poisened(..))? returns
\* the error before anything is pushed or broadcast.
send_message_push(p) ==
    /\ pc[p] = "sm_lock"
    /\ IF is_poisoned(local[p].chat_id)
       THEN /\ return_err(p)
            /\ failed' = failed \cup {local[p].message}
            /\ UNCHANGED histories
       ELSE /\ histories' = [histories EXCEPT ![local[p].chat_id] =
                               push(histories[local[p].chat_id], local[p].message)]
            /\ goto(p, "sm_get")
            /\ UNCHANGED <<local, failed>>
    /\ UNCHANGED <<broadcasts, channels, poisoned, streams, nextStream, ws,
                   nextEvent, referenced, posted>>

\* broadcast_message: self.broadcasts.get(&message.chat_id).map(|r| r.value().clone());
\* with no entry send_message returns Ok(()).
broadcast_message_get(p) ==
    /\ pc[p] = "sm_get"
    /\ IF key_of(local[p].message) \in DOMAIN broadcasts
       THEN /\ local' = [local EXCEPT ![p].sender =
                            broadcasts[key_of(local[p].message)]]
            /\ goto(p, "sm_send")
            /\ UNCHANGED posted
       ELSE /\ return(p)
            /\ posted' = posted \cup {local[p].message}
    /\ UNCHANGED <<server, streams, nextStream, ws, nextEvent, referenced,
                   failed>>

\* broadcast_message: let _ = sender.send(message); then the clone is dropped
\* and send_message returns Ok(()).
broadcast_message_send(p) ==
    /\ pc[p] = "sm_send"
    /\ channels' = [channels EXCEPT ![local[p].sender] =
                       send(channels[local[p].sender], local[p].message)]
    /\ return(p)
    /\ posted' = posted \cup {local[p].message}
    /\ UNCHANGED <<histories, broadcasts, poisoned, streams, nextStream, ws,
                   nextEvent, referenced, failed>>

----------------------------------------------------------------------------
\* ChatServer::join_chat

\* BroadcastStream::new(receiver), for the caller p, on the channel ch with
\* the id c
new_stream(p, r, c, ch) ==
    [chat_id |-> r, chan |-> c, next |-> subscribe_next(ch),
     received |-> <<>>, owner |-> IF ws[p] = NoWs THEN 0 ELSE p]

\* join_chat returns the stream to p: a connection keeps it as its broadcast.
join_chat_return(p) ==
    /\ return(p)
    /\ nextStream' = nextStream + 1
    /\ ws' = IF ws[p] = NoWs THEN ws ELSE [ws EXCEPT ![p].broadcast = nextStream]

\* self.histories.entry(chat_id).or_default();
join_chat_entry(p, r) ==
    /\ histories' = or_default(histories, r)
    /\ local' = [local EXCEPT ![p] = [NoLocal EXCEPT !.chat_id = r]]
    /\ goto(p, "jc_get")
    /\ referenced' = referenced \cup {r}
    /\ UNCHANGED <<broadcasts, channels, poisoned, streams, nextStream,
                   nextEvent, posted, failed>>

\* The calls of join_chat that have yet to make their stream
joining == {q \in Procs : pc[q] \in {"jc_get", "jc_insert"}}

\* A caller calls join_chat for room r.
join_chat(p, r) ==
    /\ free(p)
    /\ nextStream + Cardinality(joining) <= MaxStreams
    /\ join_chat_entry(p, r)
    /\ UNCHANGED ws

\* self.broadcasts.get(&chat_id).map(|r| r.value().subscribe())
join_chat_get(p) ==
    /\ pc[p] = "jc_get"
    /\ LET r == local[p].chat_id
       IN  IF r \in DOMAIN broadcasts
           THEN /\ streams' = streams @@
                       (nextStream :> new_stream(p, r, broadcasts[r],
                                                channels[broadcasts[r]]))
                /\ channels' = [channels EXCEPT ![broadcasts[r]] =
                                   subscribe(channels[broadcasts[r]])]
                /\ join_chat_return(p)
           ELSE /\ goto(p, "jc_insert")
                /\ UNCHANGED <<channels, streams, nextStream, local, ws>>
    /\ UNCHANGED <<histories, broadcasts, poisoned>>
    /\ UNCHANGED ghosts

\* let (sender, _) = tokio::sync::broadcast::channel(16);
\* self.broadcasts.entry(chat_id).or_insert(sender).subscribe()
join_chat_insert(p) ==
    /\ pc[p] = "jc_insert"
    /\ LET r == local[p].chat_id
           sender == Len(channels) + 1
           created == Append(channels, new_channel)
       IN  /\ broadcasts' = or_insert(broadcasts, r, sender)
           /\ streams' = streams @@
                  (nextStream :> new_stream(p, r, broadcasts'[r],
                                           created[broadcasts'[r]]))
           /\ channels' = [created EXCEPT ![broadcasts'[r]] =
                              subscribe(created[broadcasts'[r]])]
           /\ join_chat_return(p)
    /\ UNCHANGED <<histories, poisoned>>
    /\ UNCHANGED ghosts

----------------------------------------------------------------------------
\* ChatServer::part_chat

\* self.broadcasts.remove_if(&chat_id, |_, v| v.receiver_count() == 0);
remove_if(map, k) ==
    IF k \in DOMAIN map /\ receiver_count(channels[map[k]]) = 0
    THEN remove(map, k)
    ELSE map

\* A caller calls part_chat for room r.
part_chat(p, r) ==
    /\ free(p)
    /\ local' = [local EXCEPT ![p] = [NoLocal EXCEPT !.chat_id = r]]
    /\ goto(p, "pc_remove")
    /\ UNCHANGED <<server, streams, nextStream, ws>>
    /\ UNCHANGED ghosts

\* part_chat: the one step of the call, and its return
part_chat_remove_if(p) ==
    /\ pc[p] = "pc_remove"
    /\ broadcasts' = remove_if(broadcasts, local[p].chat_id)
    /\ return(p)
    /\ UNCHANGED <<histories, channels, poisoned, streams, nextStream, ws>>
    /\ UNCHANGED ghosts

----------------------------------------------------------------------------
\* ChatServer::get_chat_history

\* self.histories.get(&chat_id).ok_or_else(|| chat_not_found(chat_id))?
\*     .lock().map_err(|_| lock_poisened("accessing history"))?.clone()
history_of(chat_id) ==
    IF chat_id \notin DOMAIN histories
    THEN chat_not_found(chat_id)
    ELSE IF is_poisoned(chat_id)
    THEN lock_poisened("accessing history")
    ELSE OkHistory(histories[chat_id])

\* A caller calls get_chat_history for room r: the entry does not go away
\* once it is there, so the call is the one step that reads the history.
\* audience: the streams join_chat had returned for r by then.
get_chat_history(p, r) ==
    /\ free(p)
    /\ local' = [local EXCEPT ![p] =
                    [NoLocal EXCEPT !.chat_id = r, !.result = history_of(r),
                                    !.audience = attached(r)]]
    /\ goto(p, "gh_ret")
    /\ UNCHANGED <<server, streams, nextStream, ws>>
    /\ UNCHANGED ghosts

\* The caller is done with what get_chat_history returned.
get_chat_history_done(p) ==
    /\ pc[p] = "gh_ret"
    /\ goto(p, "idle")
    /\ local' = [local EXCEPT ![p] = NoLocal]
    /\ UNCHANGED <<server, streams, nextStream, ws>>
    /\ UNCHANGED ghosts

----------------------------------------------------------------------------
\* The callers of ChatServer outside the websocket handler (the tests of
\* chat/mod.rs): they hold the streams join_chat returned to them.

\* The stream s yields item to its holder.
yield(s, item) ==
    [streams EXCEPT ![s].next = next_after(streams[s], item),
                    ![s].received = Append(@, item)]

\* Drop for BroadcastStream: the receiver is dropped with it.
drop_stream(s) ==
    /\ channels' = [channels EXCEPT ![streams[s].chan] = drop_receiver(@)]
    /\ streams' = remove(streams, s)

\* stream.try_next().now_or_never() with an item ready
read_stream(s) ==
    /\ s \in DOMAIN streams
    /\ streams[s].owner = 0
    /\ next_item(streams[s]).kind # "Pending"
    /\ \A i \in 1..Len(streams[s].received) :
           streams[s].received[i].kind # "Closed"
    /\ streams' = yield(s, next_item(streams[s]))
    /\ UNCHANGED <<server, nextStream, pc, local, ws>>
    /\ UNCHANGED ghosts

\* The holder of the stream s drops it.
drop(s) ==
    /\ s \in DOMAIN streams
    /\ streams[s].owner = 0
    /\ drop_stream(s)
    /\ UNCHANGED <<histories, broadcasts, poisoned, nextStream, pc, local, ws>>
    /\ UNCHANGED ghosts

----------------------------------------------------------------------------
\* services.rs: one websocket connection

\* What the websocket of a connection can hand to the handler, besides a chat
\* message: preprocess_incoming_stream_event
IncomingEvents == {"Ping", "Close", "ProtocolError", "ParseError", "None"}

\* connect_to_chat: let chat_messages_receiver = app_state.join_chat(chat_id);
\* the handler is spawned with the stream when join_chat has returned.
connect_to_chat(p, r) ==
    /\ free(p)
    /\ nextStream + Cardinality(joining) <= MaxStreams
    /\ ws' = [ws EXCEPT ![p] = [chat_id |-> r, broadcast |-> 0]]
    /\ join_chat_entry(p, r)

\* handle_incoming_stream_event, IncomingStreamEventSuccess::ChatMessage:
\* chat_server.send_message(ChatMessage { event_id: EventId::random(), chat_id, .. });
\* send_message returns Ok and the loop continues.
handle_incoming_chat_message(p) ==
    /\ pc[p] = "ws_loop"
    /\ nextEvent <= MaxEvents
    /\ send_message_entry(p, ChatMessage(nextEvent, ws[p].chat_id))

\* A handler that breaks on every error, the parse error included
incoming_breaks_on_error(ev, sent) ==
    \/ ev \in {"Close", "ProtocolError", "None", "ParseError"}
    \/ ev = "Ping" /\ ~sent

\* handle_incoming_stream_event on the other events: whether the loop breaks.
\* sent: whether the session took the pong or the error message.
incoming_breaks(ev, sent) ==
    \/ ev \in {"Close", "ProtocolError", "None"}
    \/ ev \in {"Ping", "ParseError"} /\ ~sent

\* handle_incoming_stream_event, every event but a chat message
handle_incoming_stream_event(p, ev, sent) ==
    /\ pc[p] = "ws_loop"
    /\ goto(p, IF incoming_breaks(ev, sent) THEN "ws_part" ELSE "ws_loop")
    /\ UNCHANGED <<server, streams, nextStream, local, ws>>
    /\ UNCHANGED ghosts

\* A loop that goes on after the lag signal
outgoing_breaks_not_on_lag(item, sent) ==
    \/ item.kind = "Message" /\ ~sent
    \/ item.kind = "Closed"

\* handle_websocket_connection: outgoing_message = broadcast.next(): whether
\* the loop breaks. sent: whether the session took the message.
outgoing_breaks(item, sent) ==
    \/ item.kind = "Message" /\ ~sent
    \/ item.kind = "Lagged"
    \/ item.kind = "Closed"

\* handle_websocket_connection: the broadcast branch of the select
handle_outgoing_message(p, sent) ==
    /\ pc[p] = "ws_loop"
    /\ LET s == ws[p].broadcast
           item == next_item(streams[s])
       IN  /\ item.kind # "Pending"
           /\ streams' = yield(s, item)
           /\ goto(p, IF outgoing_breaks(item, sent) THEN "ws_part" ELSE "ws_loop")
    /\ UNCHANGED <<server, nextStream, local, ws>>
    /\ UNCHANGED ghosts

\* handle_websocket_connection: chat_server.part_chat(chat_id);
handle_websocket_connection_part(p) ==
    /\ pc[p] = "ws_part"
    /\ broadcasts' = remove_if(broadcasts, ws[p].chat_id)
    /\ goto(p, "ws_drop")
    /\ UNCHANGED <<histories, channels, poisoned, streams, nextStream, local, ws>>
    /\ UNCHANGED ghosts

\* handle_websocket_connection returns: its parameter broadcast is dropped.
handle_websocket_connection_end(p) ==
    /\ pc[p] = "ws_drop"
    /\ drop_stream(ws[p].broadcast)
    /\ ws' = [ws EXCEPT ![p] = NoWs]
    /\ goto(p, "idle")
    /\ UNCHANGED <<histories, broadcasts, poisoned, nextStream, local>>
    /\ UNCHANGED ghosts

----------------------------------------------------------------------------
\* A caller of join_chat that keeps the contract of mod.rs 174-177, as the
\* test removing_the_last_receiver_should_cleanup_the_broadcast_map does: it
\* drops the stream, then calls part_chat. Like a connection it holds its
\* stream in ws and is at "ws_loop" while it holds it.

\* let receiver = sut.join_chat(chat_id);
caller_join_chat(p, r) ==
    /\ free(p)
    /\ nextStream + Cardinality(joining) <= MaxStreams
    /\ ws' = [ws EXCEPT ![p] = [chat_id |-> r, broadcast |-> 0]]
    /\ join_chat_entry(p, r)

\* The scope of receiver ends: the stream is dropped.
caller_drop(p) ==
    /\ pc[p] = "ws_loop"
    /\ drop_stream(ws[p].broadcast)
    /\ ws' = [ws EXCEPT ![p].broadcast = 0]
    /\ goto(p, "ct_part")
    /\ UNCHANGED <<histories, broadcasts, poisoned, nextStream, local>>
    /\ UNCHANGED ghosts

\* dropped receiver, now parting the chat: sut.part_chat(chat_id);
caller_part_chat(p) ==
    /\ pc[p] = "ct_part"
    /\ broadcasts' = remove_if(broadcasts, ws[p].chat_id)
    /\ ws' = [ws EXCEPT ![p] = NoWs]
    /\ goto(p, "idle")
    /\ UNCHANGED <<histories, channels, poisoned, streams, nextStream, local>>
    /\ UNCHANGED ghosts

----------------------------------------------------------------------------
\* A panic in the critical section of send_message

\* shared_history.lock()?.push(message.clone()) panics with the guard held
\* (Vec::push: capacity overflow): the guard is dropped while the thread
\* panics, which poisons the Mutex; nothing was pushed, and the call never
\* returns. A connection's task unwinds and drops its stream.
send_message_panic(p) ==
    /\ pc[p] = "sm_lock"
    /\ ~is_poisoned(local[p].chat_id)
    /\ poisoned' = poisoned \cup {local[p].chat_id}
    /\ pc' = [pc EXCEPT ![p] = IF ws[p] = NoWs THEN "idle" ELSE "ws_drop"]
    /\ local' = [local EXCEPT ![p] = NoLocal]
    /\ UNCHANGED <<histories, broadcasts, channels, streams, nextStream, ws>>
    /\ UNCHANGED ghosts

----------------------------------------------------------------------------
\* A subscriber that falls behind: one caller posts to a room event after
\* event, more events than a channel holds.

\* sut.send_message(message) in a loop
send_message_in_turn(p, r) ==
    /\ free(p)
    /\ nextEvent <= MaxLagEvents
    /\ send_message_entry(p, ChatMessage(nextEvent, r))

----------------------------------------------------------------------------
\* The locks of histories: the lock of the DashMap shard a room's key is in,
\* and the Mutex of the room's Vec. These actions take send_message,
\* join_chat and get_chat_history apart into the steps that take a lock:
\* a caller that waits for a lock is at a step that is not enabled.

\* The chat ids in use where the locks are looked at
LockRooms == {1, 2, 3}

\* DashMap::determine_shard: the hash of the key picks one of the shards,
\* here of two.
determine_shard(chat_id) == chat_id % 2

\* q holds a Ref into histories, and so the read lock of its shard: the
\* temporary of self.histories.get(&chat_id) lives to the end of the
\* statement of get_chat_history, over .lock() and .clone().
holds_ref(q) == pc[q] \in {"gh_lock", "gh_clone"}

\* A send_message that takes the Mutex before it goes to the map
holds_guard_early(q) == pc[q] \in {"sm_entry", "sm_push", "gh_clone"}

\* q holds the MutexGuard of the history of its room
holds_guard(q) == pc[q] \in {"sm_push", "gh_clone"}

\* The write lock of the shard of chat_id is free for p.
shard_free(p, chat_id) ==
    \A q \in Procs \ {p} :
        holds_ref(q) => determine_shard(local[q].chat_id) # determine_shard(chat_id)

\* One Mutex for all the histories
mutex_free_shared(p, chat_id) == \A q \in Procs \ {p} : ~holds_guard(q)

\* The Mutex of the history of chat_id is free for p.
mutex_free(p, chat_id) ==
    \A q \in Procs \ {p} : holds_guard(q) => local[q].chat_id # chat_id

\* A caller calls send_message with a fresh event for room r.
send_message_call(p, r) ==
    /\ free(p)
    /\ nextEvent <= MaxEvents
    /\ local' = [local EXCEPT ![p] =
                    [NoLocal EXCEPT !.chat_id = r,
                                    !.message = ChatMessage(nextEvent, r),
                                    !.before = posted,
                                    !.audience = attached(r)]]
    /\ goto(p, "sm_entry")
    /\ nextEvent' = nextEvent + 1
    /\ referenced' = referenced \cup {r}
    /\ UNCHANGED <<server, streams, nextStream, ws, posted, failed>>

\* A caller calls join_chat for room r.
join_chat_call(p, r) ==
    /\ free(p)
    /\ nextStream + Cardinality(joining \cup {q \in Procs : pc[q] = "jc_entry"})
           <= MaxStreams
    /\ local' = [local EXCEPT ![p] = [NoLocal EXCEPT !.chat_id = r]]
    /\ goto(p, "jc_entry")
    /\ referenced' = referenced \cup {r}
    /\ UNCHANGED <<server, streams, nextStream, ws, nextEvent, posted, failed>>

\* self.histories.entry(chat_id).or_default(): under the write lock of the
\* shard, which is released when the statement ends.
histories_entry(p) ==
    /\ pc[p] \in {"sm_entry", "jc_entry"}
    /\ shard_free(p, local[p].chat_id)
    /\ histories' = or_default(histories, local[p].chat_id)
    /\ goto(p, IF pc[p] = "sm_entry" THEN "sm_wait" ELSE "jc_get")
    /\ UNCHANGED <<broadcasts, channels, poisoned, streams, nextStream, local, ws>>
    /\ UNCHANGED ghosts

\* send_message: shared_history.lock().map_err(..)?
history_lock(p) ==
    /\ pc[p] = "sm_wait"
    /\ mutex_free(p, local[p].chat_id)
    /\ IF is_poisoned(local[p].chat_id)
       THEN /\ return_err(p)
            /\ failed' = failed \cup {local[p].message}
       ELSE /\ goto(p, "sm_push")
            /\ UNCHANGED <<local, failed>>
    /\ UNCHANGED <<server, streams, nextStream, ws, nextEvent, referenced, posted>>

\* send_message: .push(message.clone()); the guard is dropped.
history_push(p) ==
    /\ pc[p] = "sm_push"
    /\ histories' = [histories EXCEPT ![local[p].chat_id] =
                        push(histories[local[p].chat_id], local[p].message)]
    /\ goto(p, "sm_get")
    /\ UNCHANGED <<broadcasts, channels, poisoned, streams, nextStream, local, ws>>
    /\ UNCHANGED ghosts

\* A caller calls get_chat_history for room r.
get_chat_history_call(p, r) ==
    /\ free(p)
    /\ local' = [local EXCEPT ![p] = [NoLocal EXCEPT !.chat_id = r]]
    /\ goto(p, "gh_get")
    /\ UNCHANGED <<server, streams, nextStream, ws>>
    /\ UNCHANGED ghosts

\* get_chat_history: self.histories.get(&chat_id).ok_or_else(..)?: a read
\* lock of the shard; a writer holds the shard for the length of a step.
histories_get(p) ==
    /\ pc[p] = "gh_get"
    /\ IF local[p].chat_id \in DOMAIN histories
       THEN /\ goto(p, "gh_lock")
            /\ UNCHANGED local
       ELSE /\ goto(p, "gh_ret")
            /\ local' = [local EXCEPT ![p].result = chat_not_found(local[p].chat_id)]
    /\ UNCHANGED <<server, streams, nextStream, ws>>
    /\ UNCHANGED ghosts

\* get_chat_history: .lock().map_err(..)?, with the Ref held
history_lock_ref(p) ==
    /\ pc[p] = "gh_lock"
    /\ mutex_free(p, local[p].chat_id)
    /\ IF is_poisoned(local[p].chat_id)
       THEN /\ goto(p, "gh_ret")
            /\ local' = [local EXCEPT ![p].result = lock_poisened("accessing history")]
       ELSE /\ goto(p, "gh_clone")
            /\ UNCHANGED local
    /\ UNCHANGED <<server, streams, nextStream, ws>>
    /\ UNCHANGED ghosts

\* get_chat_history: .clone(); the guard and the Ref are dropped.
history_clone(p) ==
    /\ pc[p] = "gh_clone"
    /\ local' = [local EXCEPT ![p].result = OkHistory(histories[local[p].chat_id])]
    /\ goto(p, "gh_ret")
    /\ UNCHANGED <<server, streams, nextStream, ws>>
    /\ UNCHANGED ghosts

----------------------------------------------------------------------------
\* Specifications

\* The steps inside the calls of ChatServer
Step ==
    \E p \in Procs :
        \/ send_message_push(p)
        \/ broadcast_message_get(p)
        \/ broadcast_message_send(p)
        \/ join_chat_get(p)
        \/ join_chat_insert(p)

\* The websocket connections
Websocket ==
    \E p \in Procs :
        \/ \E r \in Rooms : connect_to_chat(p, r)
        \/ handle_incoming_chat_message(p)
        \/ \E ev \in IncomingEvents, sent \in BOOLEAN :
               handle_incoming_stream_event(p, ev, sent)
        \/ \E sent \in BOOLEAN : handle_outgoing_message(p, sent)
        \/ handle_websocket_connection_part(p)
        \/ handle_websocket_connection_end(p)

\* The history endpoint
History ==
    \E p \in Procs :
        \/ \E r \in Rooms : get_chat_history(p, r)
        \/ get_chat_history_done(p)

\* Callers of ChatServer's methods themselves, and their streams
Direct ==
    \/ \E p \in Procs, r \in Rooms :
           \/ send_message(p, r)
           \/ join_chat(p, r)
           \/ part_chat(p, r)
    \/ \E p \in Procs : part_chat_remove_if(p)
    \/ \E s \in DOMAIN streams : read_stream(s) \/ drop(s)

Next == Step \/ History \/ Direct

\* ChatServer under any callers of its methods
Spec == Init /\ [][Next]_vars

NextWs == Step \/ History \/ Websocket

\* ChatServer as main.rs serves it: called by services.rs alone
SpecWs == Init /\ [][NextWs]_vars

\* The connections, one of which can panic in send_message and poison the
\* lock the others then fail on
NextWsPoison == NextWs \/ \E p \in Procs : send_message_panic(p)

\* The task of a connection keeps running: once the loop is left it calls
\* part_chat and returns.
FairnessWs ==
    \A p \in Procs :
        /\ WF_vars(handle_websocket_connection_part(p))
        /\ WF_vars(handle_websocket_connection_end(p))

\* ChatServer as main.rs serves it, with tasks that keep running
SpecWsFair == Init /\ [][NextWsPoison]_vars /\ FairnessWs

\* A connection that falls behind: one caller posts to room 1 event after
\* event while the task of a connection to room 1 takes what its stream
\* yields late or not at all.
NextWsLag ==
    \/ Step
    \/ send_message_in_turn(1, 1)
    \/ connect_to_chat(2, 1)
    \/ \E sent \in BOOLEAN : handle_outgoing_message(2, sent)
    \/ handle_websocket_connection_part(2)
    \/ handle_websocket_connection_end(2)

\* ChatServer with a websocket connection that reads late
SpecWsLag == Init /\ [][NextWsLag]_vars

\* ChatServer called by services.rs and by any other callers at once
SpecAll == Init /\ [][Next \/ Websocket]_vars

\* Callers that keep the contract of join_chat, and callers of send_message
Contract ==
    \/ \E p \in Procs, r \in Rooms :
           \/ caller_join_chat(p, r)
           \/ send_message(p, r)
    \/ \E p \in Procs :
           \/ handle_incoming_chat_message(p)
           \/ caller_drop(p)
           \/ caller_part_chat(p)

NextContract == Step \/ Contract

\* ChatServer under callers that drop their stream and then call part_chat
SpecContract == Init /\ [][NextContract]_vars

NextPoison == Next \/ \E p \in Procs : send_message_panic(p)

\* ChatServer under any callers, one of which may panic holding a history lock
SpecPoison == Init /\ [][NextPoison]_vars

\* One poster, one room, and the streams of the other caller
Lag ==
    \/ send_message_in_turn(1, 1)
    \/ join_chat(2, 1)
    \/ \E s \in DOMAIN streams : read_stream(s) \/ drop(s)

NextLag == Step \/ Lag

\* ChatServer with subscribers that read late or not at all
SpecLag == Init /\ [][NextLag]_vars

\* The calls that touch histories, lock by lock
Lock ==
    \/ \E p \in Procs, r \in LockRooms :
           \/ send_message_call(p, r)
           \/ join_chat_call(p, r)
           \/ get_chat_history_call(p, r)
    \/ \E p \in Procs :
           \/ histories_entry(p)
           \/ history_lock(p)
           \/ history_push(p)
           \/ histories_get(p)
           \/ history_lock_ref(p)
           \/ history_clone(p)
           \/ get_chat_history_done(p)
           \/ broadcast_message_get(p)
           \/ broadcast_message_send(p)
           \/ join_chat_get(p)
           \/ join_chat_insert(p)

\* ChatServer with the locks of histories in view
SpecLock == Init /\ [][Lock]_vars

\* The steps of the calls that take a lock of histories
lock_step(p) ==
    histories_entry(p) \/ history_lock(p) \/ histories_get(p) \/ history_lock_ref(p)

\* The steps of the calls that wait for nothing
free_step(p) ==
    \/ history_push(p)
    \/ history_clone(p)
    \/ get_chat_history_done(p)
    \/ broadcast_message_get(p)
    \/ broadcast_message_send(p)
    \/ join_chat_get(p)
    \/ join_chat_insert(p)
    \/ part_chat_remove_if(p)

\* The chat ids in use under fair scheduling: two rooms of one shard
FairRooms == {1, 3}

\* All four calls with the locks in view, and the streams dropped
LockAll ==
    \/ \E p \in Procs, r \in FairRooms :
           \/ send_message_call(p, r)
           \/ join_chat_call(p, r)
           \/ get_chat_history_call(p, r)
           \/ part_chat(p, r)
    \/ \E p \in Procs : lock_step(p) \/ free_step(p)
    \/ \E s \in DOMAIN streams : drop(s)

\* Fair scheduling: a thread in a call takes its next step, and a thread
\* that waits for a lock gets it when the lock is free again and again.
\* Nothing makes a caller call.
Fairness ==
    \A p \in Procs : WF_vars(free_step(p)) /\ SF_vars(lock_step(p))

\* ChatServer with the locks of histories in view, under fair scheduling
SpecLockFair == Init /\ [][LockAll]_vars /\ Fairness

----------------------------------------------------------------------------
\* Properties

\* The messages in a sequence of stream items
messages(items) ==
    LET ms == SelectSeq(items, LAMBDA item : item.kind = "Message")
    IN  [i \in 1..Len(ms) |-> ms[i].msg]

\* The messages the stream s has yielded and has yet to yield
delivered(s) == messages(streams[s].received) \o pending(streams[s])

\* The stream s has lost messages
lagged(s) ==
    \/ next_item(streams[s]).kind = "Lagged"
    \/ \E i \in 1..Len(streams[s].received) : streams[s].received[i].kind = "Lagged"

\* Where m is in the sequence h
Position(h, m) == CHOOSE i \in 1..Len(h) : h[i] = m

\* The call of send_message by p returns in this step
send_message_returns(p) ==
    /\ pc[p] \in {"sm_get", "sm_send"}
    /\ pc'[p] \in {"idle", "ws_loop"}

\* The call of send_message by p is past its push
send_message_pushed(p) == pc[p] \in {"sm_get", "sm_send"}

\* The messages send_message was called with so far
messages_sent == {ChatMessage(e, r) : e \in 1..(nextEvent - 1), r \in Rooms}

\* The channels that are in no entry of broadcasts
unregistered == {c \in 1..Len(channels) : c \notin Range(broadcasts)}

\* C1, consequence: every attached stream of a room is attached to the
\* channel that is registered for the room.
C1_AttachedToRegistered ==
    \A s \in DOMAIN streams :
        /\ streams[s].chat_id \in DOMAIN broadcasts
        /\ broadcasts[streams[s].chat_id] = streams[s].chan

\* C1, the step: an entry of broadcasts goes away or changes only in a step
\* of part_chat for its room, taken when the channel counts no receiver and
\* the room has no attached stream.
C1_RemovalStep ==
    \A r \in DOMAIN broadcasts :
        (r \notin DOMAIN broadcasts' \/ broadcasts'[r] # broadcasts[r]) =>
            /\ \E p \in Procs : part_chat_remove_if(p) /\ local[p].chat_id = r
            /\ receiver_count(channels[broadcasts[r]]) = 0
            /\ attached(r) = {}

\* C1: an entry of broadcasts is removed only by part_chat and only when the
\* channel has no receiver at that instant, not by send_message, join_chat,
\* get_chat_history or the drop of a stream; so every attached stream is
\* attached to the channel registered for its room.
C1_RemovedOnlyByPartChat == []C1_AttachedToRegistered /\ [][C1_RemovalStep]_vars

\* C1 witness: a stream is attached while another channel, one that carried
\* messages, has been removed from broadcasts.
C1_Witness ==
    \E s \in DOMAIN streams :
        \E c \in unregistered : c # streams[s].chan /\ channels[c].sent # <<>>

\* C2, the step of part_chat for room r: with a stream attached to r the
\* entry stays as it is, with none attached there is no entry afterwards.
C2_PartChatStep ==
    \A p \in Procs, r \in Rooms :
        (part_chat_remove_if(p) /\ local[p].chat_id = r) =>
            /\ attached(r) # {} =>
                   r \in DOMAIN broadcasts' /\ broadcasts'[r] = broadcasts[r]
            /\ attached(r) = {} => r \notin DOMAIN broadcasts'

\* C2: part_chat(R) called while another subscriber of R is attached leaves
\* R's entry in broadcasts; called when the last subscriber has dropped its
\* stream it leaves no entry for R.
C2_LastPartChatRemoves == [][C2_PartChatStep]_vars

\* C2 witness: two streams were made for room 1, both are dropped, and the
\* one channel they shared is no longer registered.
C2_Witness ==
    /\ nextStream = 3
    /\ DOMAIN streams = {}
    /\ DOMAIN histories = {1}
    /\ Len(channels) = 1
    /\ DOMAIN broadcasts = {}
    /\ \A p \in Procs : pc[p] = "idle"

\* C3: a room with an entry in broadcasts has a live websocket connection:
\* when the last connection of a room has ended, the entry is gone.
C3_NoConnectionNoChannel ==
    \A r \in DOMAIN broadcasts : \E p \in Procs : ws[p].chat_id = r

\* C4: under concurrent join_chat calls one channel is registered for the
\* room and every caller is subscribed to it: the attached streams of a room
\* share one channel, the registered channel counts exactly them, a channel
\* that lost the race has no subscriber, and a send_message that began after
\* the joins returned pushes to the channel all of them are subscribed to.
C4_ConcurrentJoinOneChannel ==
    /\ \A s1, s2 \in DOMAIN streams :
           streams[s1].chat_id = streams[s2].chat_id =>
               streams[s1].chan = streams[s2].chan
    /\ \A r \in DOMAIN broadcasts :
           receiver_count(channels[broadcasts[r]]) = Cardinality(attached(r))
    /\ \A c \in unregistered :
           /\ receiver_count(channels[c]) = 0
           /\ \A s \in DOMAIN streams : streams[s].chan # c
    /\ \A p \in Procs : \A s \in local[p].audience \cap DOMAIN streams :
           /\ pc[p] = "sm_get" => streams[s].chat_id \in DOMAIN broadcasts
           /\ pc[p] = "sm_send" => local[p].sender = streams[s].chan

\* C4 witness: two join_chat calls raced for room r, two channels were
\* created, both streams are attached and have been handed a message.
C4_Witness ==
    \E r \in Rooms :
        /\ Len(channels) = 2
        /\ Cardinality(attached(r)) = 2
        /\ DOMAIN histories = {r}
        /\ \A s \in attached(r) : streams[s].received # <<>>

\* C5, state: no stream is handed a posted message twice.
C5_AtMostOnce ==
    \A s \in DOMAIN streams : \A m \in posted : Count(delivered(s), m) <= 1

\* C5, the step send_message returns in: every stream that was attached to
\* the room when the call began, is still attached and has not lagged has
\* the message exactly once among what it yielded and has yet to yield.
C5_DeliveryStep ==
    \A p \in Procs :
        send_message_returns(p) =>
            \A s \in local[p].audience \cap DOMAIN streams' :
                ~lagged(s)' => Count(delivered(s)', local[p].message) = 1

\* C5, the step a stream is read in: it yields the first message it had yet
\* to yield, and has the rest yet to yield.
C5_ReadStep ==
    \A s \in DOMAIN streams :
        (read_stream(s) /\ next_item(streams[s]).kind = "Message") =>
            /\ streams'[s].received =
                   Append(streams[s].received,
                          [kind |-> "Message", msg |-> Head(pending(streams[s]))])
            /\ pending(streams[s])' = Tail(pending(streams[s]))

\* C5: a subscriber whose join_chat returned before send_message(E) was
\* called, that stays attached and has not lagged, is handed E by its next
\* read and exactly once.
C5_DeliveredExactlyOnce ==
    []C5_AtMostOnce /\ [][C5_DeliveryStep /\ C5_ReadStep]_vars

\* C5 witness: a stream has read one posted message and its next read yields
\* nothing.
C5_Witness ==
    \E s \in DOMAIN streams : \E m \in posted :
        /\ streams[s].received = <<[kind |-> "Message", msg |-> m]>>
        /\ next_item(streams[s]).kind = "Pending"

\* C6: every message a stream of room R yields, and every message in the
\* history of R, has chat_id R.
C6_RoomIsolation ==
    /\ \A s \in DOMAIN streams : \A i \in 1..Len(delivered(s)) :
           delivered(s)[i].chat_id = streams[s].chat_id
    /\ \A r \in DOMAIN histories : \A i \in 1..Len(histories[r]) :
           histories[r][i].chat_id = r

\* C6 witness: two rooms, each with a message in its history and a stream
\* that has read a message.
C6_Witness ==
    \E s1, s2 \in DOMAIN streams :
        /\ streams[s1].chat_id # streams[s2].chat_id
        /\ streams[s1].received # <<>>
        /\ streams[s2].received # <<>>
        /\ \A r \in Rooms : r \in DOMAIN histories /\ histories[r] # <<>>

\* C7: the history of a room holds every message whose send_message returned
\* Ok exactly once, and nothing but those and the messages of the calls that
\* are past their push; with no such call in progress its length is the
\* number of posts that returned Ok.
C7_NoLostOrDuplicatedAppend ==
    /\ \A m \in posted :
           /\ m.chat_id \in DOMAIN histories
           /\ Count(histories[m.chat_id], m) = 1
    /\ \A r \in DOMAIN histories :
           /\ \A i \in 1..Len(histories[r]) :
                  \/ histories[r][i] \in posted
                  \/ \E p \in Procs : /\ send_message_pushed(p)
                                      /\ local[p].message = histories[r][i]
           /\ (\A p \in Procs : send_message_pushed(p) => local[p].chat_id # r)
                  => Len(histories[r]) = Cardinality({m \in posted : m.chat_id = r})

\* C7 witness: two send_message calls to one room overlapped (the later
\* event is first in the history) while join_chat made a stream for the
\* room, and both returned Ok.
C7_Witness ==
    \E r \in DOMAIN histories :
        /\ Len(histories[r]) = 2
        /\ histories[r][1].event_id > histories[r][2].event_id
        /\ \A i \in 1..2 : histories[r][i] \in posted
        /\ attached(r) # {}

\* C8: a message is in the history after every message of its room whose
\* send_message had returned when its own send_message was called: the
\* history keeps the order of sequential posts.
C8_SequentialOrder ==
    \A p \in Procs :
        send_message_pushed(p) =>
            LET h == histories[local[p].chat_id]
            IN  /\ Count(h, local[p].message) = 1
                /\ \A m \in local[p].before :
                       m.chat_id = local[p].chat_id =>
                           /\ Count(h, m) = 1
                           /\ Position(h, m) < Position(h, local[p].message)

\* C8 witness: a send_message is past its push, called after another
\* send_message to the same room had returned.
C8_Witness ==
    \E p \in Procs :
        /\ send_message_pushed(p)
        /\ \E m \in local[p].before : m.chat_id = local[p].chat_id

\* C9: what get_chat_history returned for a room is a prefix of what it
\* returns at any later time, whatever was posted, joined or parted since.
C9_HistoryGrowsByPrefix ==
    \A p \in Procs :
        (pc[p] = "gh_ret" /\ local[p].result.kind = "History") =>
            /\ history_of(local[p].chat_id).kind = "History"
            /\ IsPrefix(local[p].result.history,
                        history_of(local[p].chat_id).history)

\* C9 witness: two callers hold snapshots of one room, of one and of two
\* messages, and a channel has been removed since by part_chat.
C9_Witness ==
    \E p, q \in Procs :
        /\ pc[p] = "gh_ret" /\ pc[q] = "gh_ret"
        /\ local[p].chat_id = local[q].chat_id
        /\ local[p].result.kind = "History" /\ Len(local[p].result.history) = 1
        /\ local[q].result.kind = "History" /\ Len(local[q].result.history) = 2
        /\ unregistered # {}

\* C10, state: the result of get_chat_history for a room that send_message
\* and join_chat were never called for is ChatNotFound with that room's id,
\* a 404 of the history endpoint.
C10_UnknownChatResult ==
    \A p \in Procs :
        (pc[p] = "gh_ret" /\ local[p].chat_id \notin referenced) =>
            /\ local[p].result.kind = "ChatNotFound"
            /\ local[p].result.chat_id = local[p].chat_id
            /\ get_chat_history_status(local[p].result) = NOT_FOUND

\* C10, the step: the failing call changes neither map.
C10_UnknownChatStep ==
    \A p \in Procs, r \in Rooms :
        (get_chat_history(p, r) /\ r \notin referenced) =>
            UNCHANGED <<histories, broadcasts>>

\* C10: get_chat_history for a room id never passed to send_message or
\* join_chat fails with ChatNotFound carrying that id (HTTP 404) and leaves
\* both maps unchanged.
C10_UnknownChatNotFound == []C10_UnknownChatResult /\ [][C10_UnknownChatStep]_vars

\* C10 witness: a caller holds ChatNotFound for one room while the other
\* room exists.
C10_Witness ==
    \E p \in Procs :
        /\ pc[p] = "gh_ret"
        /\ local[p].result.kind = "ChatNotFound"
        /\ local[p].chat_id \notin referenced
        /\ referenced # {}

\* A call of send_message for room r is in progress
send_message_in_progress(r) ==
    \E p \in Procs : pc[p] \in {"sm_lock", "sm_get", "sm_send"} /\ local[p].chat_id = r

\* The messages of room r whose send_message returned Ok
posted_to(r) == {m \in posted : m.chat_id = r}

\* C11, state: when the one send_message that was called for a room has
\* returned Ok, get_chat_history for the room returns that one message.
C11_OnlyPostIsHistory ==
    \A m \in posted :
        (posted_to(m.chat_id) = {m} /\ ~send_message_in_progress(m.chat_id)) =>
            history_of(m.chat_id) = OkHistory(<<m>>)

\* C11, the steps: send_message for a room without history entry makes the
\* entry, and the call returns Ok.
C11_PostStep ==
    \A p \in Procs :
        /\ \A r \in Rooms :
               (send_message(p, r) /\ r \notin DOMAIN histories) =>
                   r \in DOMAIN histories'
        /\ (pc[p] \in {"sm_lock", "sm_get", "sm_send"} /\ pc'[p] = "idle") =>
               local[p].message \in posted'

\* C11: send_message for a room unknown so far returns Ok and creates the
\* room: get_chat_history then returns the one message, and nothing else.
C11_FirstPostCreatesRoom == []C11_OnlyPostIsHistory /\ [][C11_PostStep]_vars

\* C11 witness: no join_chat was ever called, one message was posted, and a
\* caller holds the history of its room: that message.
C11_Witness ==
    \E p \in Procs : \E m \in posted :
        /\ pc[p] = "gh_ret"
        /\ local[p].result = OkHistory(<<m>>)
        /\ local[p].chat_id = m.chat_id
        /\ nextStream = 1 /\ channels = <<>>
        /\ referenced = {m.chat_id}

\* C12, state: a room that join_chat was called for and no send_message has
\* a history, the empty one.
C12_JoinedRoomIsEmpty ==
    \A r \in referenced :
        (/\ ~send_message_in_progress(r)
         /\ \A i \in 1..(nextEvent - 1) : ChatMessage(i, r) \notin posted \cup failed) =>
            history_of(r) = OkHistory(<<>>)

\* C12, the steps of join_chat: the first makes the empty history of a room
\* that has none and changes no history there is; the others change no
\* history, and the call ends with a stream for the room.
C12_JoinStep ==
    \A p \in Procs :
        /\ \A r \in Rooms :
               join_chat(p, r) =>
                   /\ r \in DOMAIN histories => histories' = histories
                   /\ r \notin DOMAIN histories =>
                          /\ DOMAIN histories' = DOMAIN histories \cup {r}
                          /\ histories'[r] = <<>>
                          /\ \A x \in DOMAIN histories : histories'[x] = histories[x]
        /\ (pc[p] \in {"jc_get", "jc_insert"} /\ pc'[p] # pc[p]) =>
               /\ histories' = histories
               /\ pc'[p] = "jc_insert" \/
                      /\ nextStream \in DOMAIN streams'
                      /\ streams'[nextStream].chat_id = local[p].chat_id

\* C12: join_chat for a room unknown so far succeeds and creates the room
\* with an empty history, which get_chat_history then returns; join_chat for
\* a room that exists leaves its history as it is.
C12_JoinCreatesEmptyRoom == []C12_JoinedRoomIsEmpty /\ [][C12_JoinStep]_vars

\* C12 witness: a caller holds the empty history of a room that was joined
\* and never posted to, and a stream is attached to the other room, which
\* has a message in its history that the stream's channel never carried.
C12_Witness ==
    \E p \in Procs : \E s1, s2 \in DOMAIN streams :
        /\ pc[p] = "gh_ret"
        /\ local[p].result = OkHistory(<<>>)
        /\ streams[s1].chat_id = local[p].chat_id
        /\ posted_to(local[p].chat_id) = {}
        /\ streams[s2].chat_id # local[p].chat_id
        /\ posted_to(streams[s2].chat_id) # {}
        /\ channels[streams[s2].chan].sent = <<>>

\* C13, state: the rooms with an entry in histories are the rooms
\* send_message or join_chat was called for.
C13_EntryIffReferenced == DOMAIN histories = referenced

\* C13, the step: no step removes an entry of histories, and the steps of
\* get_chat_history and part_chat make none.
C13_EntryStep ==
    /\ DOMAIN histories \subseteq DOMAIN histories'
    /\ \A p \in Procs :
           (\/ \E r \in Rooms : get_chat_history(p, r) \/ part_chat(p, r)
            \/ get_chat_history_done(p)
            \/ part_chat_remove_if(p)) => histories' = histories

\* C13: a room has an entry in histories if and only if send_message or
\* join_chat was called for it; get_chat_history and part_chat never create
\* an entry, and no operation removes one.
C13_HistoryEntryIffReferenced == []C13_EntryIffReferenced /\ [][C13_EntryStep]_vars

\* C13 witness: one room was joined and parted, its channel is gone and its
\* history entry is there; a caller was told the other room is not found.
C13_Witness ==
    \E p \in Procs :
        /\ pc[p] = "gh_ret"
        /\ local[p].result.kind = "ChatNotFound"
        /\ DOMAIN histories = Rooms \ {local[p].chat_id}
        /\ unregistered # {}
        /\ DOMAIN streams = {}

\* No call is in progress and no caller has dropped a stream without having
\* called part_chat since.
quiescent == \A p \in Procs : pc[p] \in {"idle", "ws_loop"}

\* C14: with callers that drop their stream and then call part_chat, in
\* every quiescent state a room has an entry in broadcasts if and only if a
\* stream is attached to it, however joins, drops and parts interleave.
C14_EntryIffSubscriber ==
    quiescent =>
        \A r \in Rooms : r \in DOMAIN broadcasts <=> attached(r) # {}

\* C14 witness: of the two streams made for a room, on one channel, the
\* first was dropped and parted; the second is held and the entry is there.
C14_Witness ==
    /\ quiescent
    /\ nextStream = 3
    /\ DOMAIN streams = {2}
    /\ Len(channels) = 1
    /\ DOMAIN broadcasts = {streams[2].chat_id}
    /\ \E p \in Procs : pc[p] = "idle"

\* The steps of a call of send_message by p
send_message_step(p) ==
    send_message_push(p) \/ broadcast_message_get(p) \/ broadcast_message_send(p)

\* How many values the channel of stream s took since the one s yields next
behind(s) == Len(channels[streams[s].chan].sent) - streams[s].next

Last(seq) == seq[Len(seq)]

\* C15, state: a call of send_message can always take its next step: it
\* waits for no subscriber.
C15_NeverWaits ==
    \A p \in Procs :
        pc[p] \in {"sm_lock", "sm_get", "sm_send"} => ENABLED send_message_step(p)

\* C15, the steps: with a usable lock the message is appended, and the call
\* returns Ok with the message in the history, whatever broadcasts and the
\* channel of the room look like.
C15_PostStep ==
    \A p \in Procs :
        LET r == local[p].chat_id
            m == local[p].message
        IN  /\ (pc[p] = "sm_lock" /\ ~is_poisoned(r) /\ pc'[p] # pc[p]) =>
                   histories'[r] = Append(histories[r], m)
            /\ (pc[p] \in {"sm_get", "sm_send"} /\ pc'[p] # pc[p]) =>
                   \/ pc'[p] = "sm_send" /\ r \in DOMAIN broadcasts
                   \/ /\ pc'[p] = "idle"
                      /\ m \in posted' /\ m \notin failed'
                      /\ Count(histories'[r], m) = 1

\* C15: with a usable history lock send_message appends the event and
\* returns Ok without waiting, be there no entry in broadcasts, an entry
\* whose subscribers dropped their streams, or subscribers with full buffers.
C15_PostNeverFailsOnLiveSide == []C15_NeverWaits /\ [][C15_PostStep]_vars

\* C15 witness: every post returned Ok and is in the history; one of them
\* found no entry or no receiver and reached no channel, and the others
\* overflowed the buffer of a stream that does not read.
C15_Witness ==
    \E s \in DOMAIN streams :
        /\ streams[s].received = <<>>
        /\ behind(s) > Capacity
        /\ Len(histories[streams[s].chat_id]) > Len(channels[streams[s].chan].sent)
        /\ \A i \in 1..Len(histories[streams[s].chat_id]) :
               histories[streams[s].chat_id][i] \in posted
        /\ Len(channels) = 1

\* C16, the read: a stream that is behind by more than the capacity yields
\* the lag signal, which tells how many values were lost.
C16_LagStep ==
    \A s \in DOMAIN streams :
        (read_stream(s) /\ behind(s) > Capacity) =>
            Last(streams'[s].received) =
                [kind |-> "Lagged", missed |-> behind(s) - Capacity]

\* C16, the send: the channel takes the value and the call returns in the
\* same step, however far behind the receivers are.
C16_SendStep ==
    \A p \in Procs :
        broadcast_message_send(p) =>
            LET c == local[p].sender
            IN  /\ receiver_count(channels[c]) > 0 =>
                       channels'[c].sent = Append(channels[c].sent, local[p].message)
                /\ pc'[p] = "idle"
                /\ local[p].message \in posted'

\* C16: when more than 16 events are posted to a room while an attached
\* subscriber does not read, every send_message returns without blocking and
\* the subscriber's next read yields a lag signal, not an event.
C16_LaggingReaderIsTold == [][C16_LagStep /\ C16_SendStep]_vars

\* C16 witness: 17 events were posted and returned while a stream did not
\* read, and its first read yielded the lag signal for the one it lost.
C16_Witness ==
    \E s \in DOMAIN streams :
        /\ streams[s].received = <<[kind |-> "Lagged", missed |-> 1]>>
        /\ Cardinality(posted_to(streams[s].chat_id)) >= Capacity + 1

\* The messages the stream s yielded since its last lag signal
since_lag(s) ==
    LET items == streams[s].received
        lags == {i \in 1..Len(items) : items[i].kind = "Lagged"}
        from == IF lags = {} THEN 0 ELSE CHOOSE i \in lags : \A j \in lags : j <= i
    IN  messages(SubSeq(items, from + 1, Len(items)))

\* C17, the read: a lag signal is yielded only by a stream that is behind
\* by more than the capacity; the stream stays attached and has the values
\* the channel kept yet to yield; any other read yields the next of them.
C17_ReadStep ==
    \A s \in DOMAIN streams :
        read_stream(s) =>
            LET ch == channels[streams[s].chan]
                item == Last(streams'[s].received)
            IN  /\ s \in DOMAIN streams'
                /\ channels' = channels
                /\ item.kind = "Lagged" =>
                       /\ behind(s) > Capacity
                       /\ pending(streams[s])' =
                              SubSeq(ch.sent, Len(ch.sent) - Capacity + 1, Len(ch.sent))
                /\ item.kind = "Message" => item.msg = ch.sent[streams[s].next + 1]
                /\ item.kind \in {"Lagged", "Message"}

\* C17, state: what a stream yielded since its last lag signal and what it
\* has yet to yield is, without gap and in push order, the end of what its
\* channel took.
C17_NoGapSinceLag ==
    \A s \in DOMAIN streams :
        behind(s) <= Capacity =>
            LET ch == channels[streams[s].chan]
                got == since_lag(s) \o pending(streams[s])
            IN  /\ Len(got) <= Len(ch.sent)
                /\ got = SubSeq(ch.sent, Len(ch.sent) - Len(got) + 1, Len(ch.sent))

\* C17: after a lag signal the stream stays usable and attached: its reads
\* yield the events the channel kept, then the events posted afterwards, in
\* push order, and no further lag signal unless it falls behind by more than
\* the capacity again.
C17_ResumesAfterLag == []C17_NoGapSinceLag /\ [][C17_ReadStep]_vars

\* C17 witness: after the lag signal for one lost event the stream yielded
\* the 16 events kept for it and one posted after the signal.
C17_Witness ==
    \E s \in DOMAIN streams :
        /\ Len(streams[s].received) = Capacity + 2
        /\ streams[s].received[1] = [kind |-> "Lagged", missed |-> 1]
        /\ \A i \in 2..(Capacity + 2) : streams[s].received[i].kind = "Message"
        /\ next_item(streams[s]).kind = "Pending"

\* C18, state: a channel carries only messages that are in the history of
\* their room: a call publishes after it has appended.
C18_PublishedIsAppended ==
    \A c \in 1..Len(channels) : \A i \in 1..Len(channels[c].sent) :
        LET m == channels[c].sent[i]
        IN  m.chat_id \in DOMAIN histories /\ Count(histories[m.chat_id], m) = 1

\* C18, the publish: a stream has the message after every message whose
\* send_message had returned when this call began; only calls that overlap
\* can be published in another order than appended.
C18_PublishStep ==
    \A p \in Procs :
        broadcast_message_send(p) =>
            \A s \in DOMAIN streams' : \A m \in local[p].before :
                (Count(delivered(s)', m) = 1 /\ Count(delivered(s)', local[p].message) = 1)
                    => Position(delivered(s)', m) < Position(delivered(s)', local[p].message)

\* C18: append and publish are two steps of send_message: the order of the
\* history and the order of a stream agree for posts in sequence, and two
\* concurrent posts can be appended as E1, E2 and received as E2, E1.
C18_OrdersAgreeOnlyInSequence == []C18_PublishedIsAppended /\ [][C18_PublishStep]_vars

\* C18 witness: the history is E1, E2; a stream that was attached when
\* send_message(E1) was called, before send_message(E2), has read E2, and E1
\* is yet to be published.
C18_Witness ==
    \E p \in Procs : \E s \in DOMAIN streams :
        LET E1 == local[p].message
            r == local[p].chat_id
        IN  /\ pc[p] = "sm_send"
            /\ s \in local[p].audience
            /\ local[p].sender = streams[s].chan
            /\ E1.event_id = 1
            /\ Len(histories[r]) = 2
            /\ histories[r][1] = E1
            /\ histories[r][2] \in posted
            /\ streams[s].received = <<[kind |-> "Message", msg |-> histories[r][2]]>>

\* C19, the steps: a poisoned lock stays poisoned and its history as it is;
\* send_message for the room returns Err(LockPoisoned) with nothing appended
\* or published, get_chat_history returns Err(LockPoisoned), a 500 of the
\* history endpoint; both return to their caller.
C19_PoisonedStep ==
    /\ \A r \in poisoned : r \in poisoned' /\ histories'[r] = histories[r]
    /\ \A p \in Procs :
           (pc[p] = "sm_lock" /\ local[p].chat_id \in poisoned /\ pc'[p] # pc[p]) =>
               /\ pc'[p] = "idle"
               /\ local[p].message \in failed'
               /\ local[p].message \notin posted'
               /\ UNCHANGED <<histories, broadcasts, channels>>
    /\ \A p \in Procs, r \in poisoned :
           get_chat_history(p, r) =>
               /\ pc'[p] = "gh_ret"
               /\ local'[p].result.kind = "LockPoisoned"
               /\ get_chat_history_status(local'[p].result) = INTERNAL_SERVER_ERROR
               /\ UNCHANGED <<histories, broadcasts, channels>>

\* C19, state: a message whose send_message returned Err is in no history,
\* and its room is poisoned.
C19_FailedIsNotAppended ==
    \A m \in failed :
        /\ m.chat_id \in poisoned
        /\ m \notin posted
        /\ Count(histories[m.chat_id], m) = 0

\* C19: once the history lock of a room is poisoned, every later
\* send_message and get_chat_history for the room returns Err(LockPoisoned)
\* as a value, for good: nothing repairs the lock, and the history of the
\* room does not change again.
C19_PoisonedForGood == []C19_FailedIsNotAppended /\ [][C19_PoisonedStep]_vars

\* C19 witness: a send_message for the poisoned room returned Err and a
\* caller holds the LockPoisoned error get_chat_history returned for it.
C19_Witness ==
    \E p \in Procs : \E m \in failed :
        /\ pc[p] = "gh_ret"
        /\ local[p].chat_id = m.chat_id
        /\ local[p].result.kind = "LockPoisoned"

\* C20, state: in a room whose lock is not poisoned no send_message failed,
\* every post that returned is in the history once, and get_chat_history
\* returns the history, whatever the locks of the other rooms are.
C20_HealthyRoom ==
    \A r \in Rooms \ poisoned :
        /\ \A m \in failed : m.chat_id # r
        /\ \A m \in posted_to(r) : Count(histories[r], m) = 1
        /\ r \in DOMAIN histories => history_of(r) = OkHistory(histories[r])
        /\ r \notin DOMAIN histories => history_of(r) = chat_not_found(r)

\* C20, the steps: a step of a call for one room, failing or not, changes
\* nothing of another room: not its history, its lock, its entry in
\* broadcasts, its channel or its streams.
C20_LocalStep ==
    \A p \in Procs :
        (pc'[p] # pc[p] \/ local'[p] # local[p]) =>
            \A r \in Rooms \ {IF pc[p] = "idle" THEN local'[p].chat_id
                                                ELSE local[p].chat_id} :
                /\ r \in DOMAIN histories <=> r \in DOMAIN histories'
                /\ r \in DOMAIN histories => histories'[r] = histories[r]
                /\ r \in poisoned <=> r \in poisoned'
                /\ r \in DOMAIN broadcasts <=> r \in DOMAIN broadcasts'
                /\ r \in DOMAIN broadcasts =>
                       /\ broadcasts'[r] = broadcasts[r]
                       /\ channels'[broadcasts[r]] = channels[broadcasts[r]]
                /\ \A s \in attached(r) : s \in DOMAIN streams' /\ streams'[s] = streams[s]

\* C20: failures are local to a room: with the lock of room A poisoned, or
\* A unknown, the calls for another room B return what they return with A
\* healthy, and leave B in the same state.
C20_FailureIsLocal == []C20_HealthyRoom /\ [][C20_LocalStep]_vars

\* C20 witness: the lock of one room is poisoned; the other room has a
\* message that was posted and read by a stream, and a caller holds its
\* history.
C20_Witness ==
    \E p \in Procs : \E s \in DOMAIN streams : \E m \in posted :
        /\ poisoned # {}
        /\ m.chat_id \notin poisoned
        /\ pc[p] = "gh_ret"
        /\ local[p].result = OkHistory(<<m>>)
        /\ streams[s].received = <<[kind |-> "Message", msg |-> m]>>

\* p is in a call and at a step that takes a lock of histories
at_lock_step(p) == pc[p] \in {"sm_entry", "jc_entry", "sm_wait", "gh_get", "gh_lock"}

\* The calls in progress besides that of p are for other rooms than p's.
alone_in_room(p) ==
    \A q \in Procs \ {p} : pc[q] # "idle" => local[q].chat_id # local[p].chat_id

\* C21 as stated: a call for room B never waits for a lock while the calls
\* in progress besides it are all for other rooms.
C21_NeverWaitsForOtherRoom ==
    \A p \in Procs :
        (at_lock_step(p) /\ alone_in_room(p)) => ENABLED lock_step(p)

\* C21, amended: the Mutex of a history is waited for only by calls for its
\* room; a call waits for a call of another room only at
\* histories.entry(..), for the lock of the shard, while a
\* get_chat_history for a room of the same shard holds its Ref, which it
\* does while it waits for and holds the Mutex of that room.
C21_WaitsOnlyForShard ==
    \A p \in Procs :
        at_lock_step(p) =>
            \/ ENABLED lock_step(p)
            \/ /\ pc[p] \in {"sm_wait", "gh_lock"}
               /\ \E q \in Procs \ {p} :
                      /\ pc[q] \in {"sm_push", "gh_clone"}
                      /\ local[q].chat_id = local[p].chat_id
            \/ /\ pc[p] \in {"sm_entry", "jc_entry"}
               /\ \E q \in Procs \ {p} :
                      /\ pc[q] \in {"gh_lock", "gh_clone"}
                      /\ determine_shard(local[q].chat_id) =
                             determine_shard(local[p].chat_id)

\* C21 witness: a send_message for one room waits at histories.entry(..)
\* for a get_chat_history that clones the history of another room.
C21_Witness ==
    \E p, q \in Procs :
        /\ pc[p] = "sm_entry"
        /\ pc[q] = "gh_clone"
        /\ local[q].chat_id # local[p].chat_id
        /\ ~ENABLED lock_step(p)

\* C22: a stream that is held never yields the end of the stream: whatever
\* send_message, join_chat and part_chat do meanwhile, its channel stays
\* registered, so a Sender of it is alive; the connection handler never
\* sees "message stream from chat server closed".
C22_HeldStreamNeverCloses ==
    \A s \in DOMAIN streams :
        /\ streams[s].chan \in Range(broadcasts)
        /\ sender_alive(streams[s].chan)
        /\ next_item(streams[s]).kind # "Closed"
        /\ \A i \in 1..Len(streams[s].received) :
               streams[s].received[i].kind # "Closed"

\* C22 witness: part_chat has removed a channel; a connection holds a
\* stream of a channel made since, has been handed a message and waits
\* for the next.
C22_Witness ==
    \E s \in DOMAIN streams :
        /\ streams[s].owner # 0
        /\ pc[streams[s].owner] = "ws_loop"
        /\ unregistered # {}
        /\ streams[s].received # <<>>
        /\ next_item(streams[s]).kind = "Pending"

\* C23, state: a connection that posts holds a stream of its room, and the
\* channel of that stream is the one registered for the room.
C23_SubscribedBeforePost ==
    \A p \in Procs :
        (ws[p] # NoWs /\ pc[p] \in {"sm_lock", "sm_get", "sm_send"}) =>
            /\ ws[p].broadcast \in DOMAIN streams
            /\ local[p].chat_id = ws[p].chat_id
            /\ ws[p].chat_id \in DOMAIN broadcasts
            /\ broadcasts[ws[p].chat_id] = streams[ws[p].broadcast].chan

\* C23, the step send_message returns to a connection in: the message is,
\* once, among what the connection's own stream has yet to yield.
C23_EchoStep ==
    \A p \in Procs :
        (ws[p] # NoWs /\ send_message_returns(p)) =>
            /\ pc[p] = "sm_send"
            /\ Count(pending(streams[ws[p].broadcast])', local[p].message) = 1

\* C23, the step the handler takes a message from its stream in: the
\* message is in the history of the connection's room.
C23_ReceiveStep ==
    \A p \in Procs : \A sent \in BOOLEAN :
        (handle_outgoing_message(p, sent)
            /\ next_item(streams[ws[p].broadcast]).kind = "Message") =>
            /\ ws[p].chat_id \in DOMAIN histories
            /\ Count(histories[ws[p].chat_id],
                     next_item(streams[ws[p].broadcast]).msg) = 1

\* C23: a chat message a client sends over its websocket connection is
\* echoed to that connection: join_chat has returned the connection's stream
\* before the handler posts, so every message it posts is pushed to its own
\* stream, and a message the handler takes from the stream is in the
\* history of the room by then.
C23_EchoedToOwnConnection ==
    []C23_SubscribedBeforePost /\ [][C23_EchoStep /\ C23_ReceiveStep]_vars

\* C23 witness: a connection has taken a message of its room from its stream
\* and is about to push the next message it posts to the channel of that
\* stream.
C23_Witness ==
    \E p \in Procs :
        /\ ws[p] # NoWs
        /\ pc[p] = "sm_send"
        /\ local[p].sender = streams[ws[p].broadcast].chan
        /\ Len(streams[ws[p].broadcast].received) = 1
        /\ streams[ws[p].broadcast].received[1].kind = "Message"
        /\ streams[ws[p].broadcast].received[1].msg # local[p].message

\* The message m is in the history of its room, once
appended(m) ==
    m.chat_id \in DOMAIN histories /\ Count(histories[m.chat_id], m) = 1

\* The message m has reached a channel or a stream
published(m) ==
    \/ \E c \in 1..Len(channels) : Count(channels[c].sent, m) > 0
    \/ \E s \in DOMAIN streams : Count(delivered(s), m) > 0

\* C24: append precedes publish: every message that was pushed to a channel,
\* or that a stream has yielded or has yet to yield, is in the history of its
\* room; a message whose append failed on a poisoned lock is in no history,
\* no channel and no stream.
C24_AppendPrecedesPublish ==
    /\ \A c \in 1..Len(channels) : \A i \in 1..Len(channels[c].sent) :
           appended(channels[c].sent[i])
    /\ \A s \in DOMAIN streams : \A i \in 1..Len(delivered(s)) :
           appended(delivered(s)[i])
    /\ \A p \in Procs : pc[p] = "sm_send" => appended(local[p].message)
    /\ \A m \in failed : ~published(m) /\ ~appended(m)

\* C24 witness: send_message has failed on the poisoned lock of a room while
\* a stream was attached to the room, and the stream has nothing to yield.
C24_Witness ==
    \E m \in failed : \E s \in attached(m.chat_id) :
        /\ receiver_count(channels[streams[s].chan]) > 0
        /\ next_item(streams[s]).kind = "Pending"
        /\ \A p \in Procs : pc[p] = "idle"

\* C25: no gap for a late joiner: for a stream join_chat had returned for
\* room R when get_chat_history(R) took its snapshot, and that is still
\* attached, every message posted to R is in the snapshot, or is among what
\* the stream has yielded and has yet to yield, or the stream has lagged;
\* whatever other callers post, join or part meanwhile.
C25_NoGapForLateJoiner ==
    \A p \in Procs :
        (pc[p] = "gh_ret" /\ local[p].result.kind = "History") =>
            \A s \in local[p].audience \cap DOMAIN streams :
                \A m \in posted_to(local[p].chat_id) :
                    \/ Count(local[p].result.history, m) = 1
                    \/ Count(delivered(s), m) = 1
                    \/ lagged(s)

\* C25 witness: a stream joined room R after E1 was posted; the snapshot
\* taken next holds E1 alone, and E2, posted since, is on the stream.
C25_Witness ==
    \E p \in Procs : \E s \in DOMAIN streams : \E m1, m2 \in posted :
        /\ pc[p] = "gh_ret"
        /\ s \in local[p].audience
        /\ streams[s].chat_id = local[p].chat_id
        /\ local[p].result = OkHistory(<<m1>>)
        /\ m2 # m1
        /\ delivered(s) = <<m2>>

\* C26 as stated, the step of the push: when the room has a registered
\* channel the push goes to that channel, and every stream attached to the
\* room has the message in its buffer afterwards.
C26_PushStep ==
    \A p \in Procs :
        broadcast_message_send(p) =>
            LET r == local[p].chat_id
            IN  /\ r \in DOMAIN broadcasts => local[p].sender = broadcasts[r]
                /\ \A s \in attached(r) :
                       Count(pending(streams[s])', local[p].message) = 1

\* C26 as stated: send_message pushes into the channel registered for the
\* room at the instant of the push, never into a removed channel while a
\* newer one with attached streams is registered; every stream join_chat
\* returned before the push has the message in its buffer.
C26_PushesToRegisteredChannel == [][C26_PushStep]_vars

\* C26, state: the Sender a call of send_message holds between its lookup
\* and its push is the registered channel of the room, or a channel that
\* part_chat has removed since the lookup, which has no receiver.
C26_HeldSender ==
    \A p \in Procs :
        pc[p] = "sm_send" =>
            \/ /\ local[p].chat_id \in DOMAIN broadcasts
               /\ broadcasts[local[p].chat_id] = local[p].sender
            \/ /\ local[p].sender \in unregistered
               /\ receiver_count(channels[local[p].sender]) = 0
               /\ \A s \in DOMAIN streams : streams[s].chan # local[p].sender

\* C26, the step of the push: the message goes to the channel the lookup
\* found; the streams of that channel have it as the last message of their
\* buffer, the streams of a channel registered since do not get it, and
\* the streams that were attached when send_message was called and still
\* are get it.
C26_PushToLookedUpStep ==
    \A p \in Procs :
        broadcast_message_send(p) =>
            /\ \A c \in 1..Len(channels) :
                   c # local[p].sender => channels'[c] = channels[c]
            /\ \A s \in DOMAIN streams :
                   IF streams[s].chan = local[p].sender
                   THEN /\ pending(streams[s])' # <<>>
                        /\ Last(pending(streams[s])') = local[p].message
                   ELSE pending(streams[s])' = pending(streams[s])
            /\ \A s \in local[p].audience \cap DOMAIN streams :
                   streams[s].chan = local[p].sender

\* C26 amended: send_message pushes into the channel that was registered
\* for the room when broadcast_message looked it up; part_chat can remove
\* that channel and join_chat register a newer one between the lookup and
\* the push, and the streams of the newer channel do not get the message.
C26_PushesToLookedUpChannel == []C26_HeldSender /\ [][C26_PushToLookedUpStep]_vars

\* C26 witness: a call of send_message holds the Sender of a channel that
\* part_chat has removed since the lookup, and a stream is attached to the
\* newer channel that is registered for the room.
C26_Witness ==
    \E p \in Procs : \E s \in DOMAIN streams :
        /\ pc[p] = "sm_send"
        /\ local[p].sender \in unregistered
        /\ streams[s].chat_id = local[p].chat_id
        /\ broadcasts[local[p].chat_id] = streams[s].chan
        /\ receiver_count(channels[streams[s].chan]) = 1

\* C27, the step join_chat returns a stream in: the stream has yielded
\* nothing and has nothing to yield, whatever its channel has carried.
C27_JoinStep ==
    \A n \in 1..MaxStreams :
        (n \in DOMAIN streams' /\ n \notin DOMAIN streams) =>
            /\ streams'[n].received = <<>>
            /\ pending(streams[n])' = <<>>
            /\ next_item(streams[n])'.kind = "Pending"

\* C27, every step: a message comes to be among what a stream has yielded
\* and has yet to yield only in the step that pushes it.
C27_OnlyByPushStep ==
    \A s \in DOMAIN streams \cap DOMAIN streams' : \A m \in messages_sent :
        Count(delivered(s)', m) > Count(delivered(s), m) =>
            \E p \in Procs :
                /\ broadcast_message_send(p)
                /\ local[p].message = m
                /\ local[p].sender = streams[s].chan

\* C27: a subscriber never receives live a message that was pushed before
\* its join_chat: the stream join_chat returns has nothing pending, also on
\* a channel that has carried messages for others and on one created after
\* the room's channel was removed; what it yields is pushed afterwards.
C27_FreshStreamStartsEmpty == [][C27_JoinStep /\ C27_OnlyByPushStep]_vars

\* C27 witness: a stream has just been returned on a channel that has
\* carried a message for another stream, and has nothing to yield.
C27_Witness ==
    \E s1, s2 \in DOMAIN streams :
        /\ s1 # s2
        /\ streams[s1].chan = streams[s2].chan
        /\ delivered(s1) # <<>>
        /\ streams[s2].received = <<>>
        /\ streams[s2].next = Len(channels[streams[s2].chan].sent)
        /\ next_item(streams[s2]).kind = "Pending"

\* C28: per room the live feed is one total order: what a stream that has
\* not lagged has yielded and has yet to yield is, without duplicates, the
\* run of pushes to its channel since it joined; two such streams of one
\* room share their channel and have the messages both get in the same
\* order.
C28_OneTotalOrder ==
    /\ \A s \in DOMAIN streams :
           ~lagged(s) =>
               /\ \A m \in messages_sent : Count(delivered(s), m) <= 1
               /\ \E k \in 0..Len(channels[streams[s].chan].sent) :
                      delivered(s) = SubSeq(channels[streams[s].chan].sent, k + 1,
                                            Len(channels[streams[s].chan].sent))
    /\ \A s1, s2 \in DOMAIN streams :
           (streams[s1].chat_id = streams[s2].chat_id /\ ~lagged(s1) /\ ~lagged(s2)) =>
               \A m1, m2 \in messages_sent :
                   (/\ Count(delivered(s1), m1) = 1 /\ Count(delivered(s1), m2) = 1
                    /\ Count(delivered(s2), m1) = 1 /\ Count(delivered(s2), m2) = 1) =>
                       (Position(delivered(s1), m1) < Position(delivered(s1), m2))
                           = (Position(delivered(s2), m1) < Position(delivered(s2), m2))

\* C28 witness: two streams of one room have both yielded the same two
\* messages, which two callers pushed.
C28_Witness ==
    \E s1, s2 \in DOMAIN streams :
        /\ s1 # s2
        /\ streams[s1].chat_id = streams[s2].chat_id
        /\ Len(streams[s1].received) = 2
        /\ streams[s2].received = streams[s1].received
        /\ messages(streams[s1].received) = channels[streams[s1].chan].sent

\* C29, state: a channel is registered only for a room that has a history,
\* so there are no more registered channels than rooms; a channel that
\* counts no receiver has no stream that could have anything to yield
\* from it.
C29_ChannelsWithinRooms ==
    /\ DOMAIN broadcasts \subseteq DOMAIN histories
    /\ Cardinality(DOMAIN broadcasts) <= Cardinality(DOMAIN histories)
    /\ \A c \in 1..Len(channels) :
           receiver_count(channels[c]) = 0 =>
               \A s \in DOMAIN streams : streams[s].chan # c

\* C29, the push: a channel that counts no receiver takes no message.
C29_PushStep ==
    \A p \in Procs :
        (broadcast_message_send(p)
            /\ receiver_count(channels[local[p].sender]) = 0) =>
            channels' = channels

\* C29: the keys of broadcasts are keys of histories, so the channels,
\* leaked ones included, are no more than the rooms, and a channel with no
\* attached subscriber buffers no messages.
C29_ChannelsBoundedByRooms == []C29_ChannelsWithinRooms /\ [][C29_PushStep]_vars

\* C29 witness: the streams of a room are dropped and its channel is still
\* registered; a call of send_message is about to push to that channel,
\* and another room has a history and no channel.
C29_Witness ==
    \E p \in Procs :
        /\ pc[p] = "sm_send"
        /\ broadcasts[local[p].chat_id] = local[p].sender
        /\ receiver_count(channels[local[p].sender]) = 0
        /\ DOMAIN streams = {}
        /\ Cardinality(DOMAIN histories) > Cardinality(DOMAIN broadcasts)

\* The messages the stream s yields when it is read until it has no item
\* ready, with nothing pushed meanwhile
RECURSIVE drain(_)
drain(s) ==
    LET item == next_item(s)
    IN  IF item.kind \in {"Pending", "Closed"}
        THEN <<>>
        ELSE (IF item.kind = "Message" THEN <<item.msg>> ELSE <<>>)
                 \o drain([s EXCEPT !.next = next_after(s, item)])

\* C30, state: a stream has at most 16 messages to yield, however many were
\* pushed since it last read; when more were pushed, the ones it yields
\* are the newest 16.
C30_AtMostCapacityPending ==
    \A s \in DOMAIN streams :
        LET sent == channels[streams[s].chan].sent
        IN  /\ Len(drain(streams[s])) <= Capacity
            /\ drain(streams[s]) = pending(streams[s])
            /\ behind(s) >= Capacity =>
                   drain(streams[s]) = SubSeq(sent, Len(sent) - Capacity + 1, Len(sent))

\* C30, the push to a channel one of whose streams has 16 messages to
\* yield: the oldest of them is discarded for the new one.
C30_PushStep ==
    \A p \in Procs :
        broadcast_message_send(p) =>
            \A s \in DOMAIN streams :
                (streams[s].chan = local[p].sender
                    /\ Len(pending(streams[s])) = Capacity) =>
                    pending(streams[s])' =
                        Append(Tail(pending(streams[s])), local[p].message)

\* C30: the messages pending for one subscriber never exceed the channel
\* capacity of 16, for any number of posts and however slowly it reads;
\* when the bound would be exceeded the oldest pending are discarded.
C30_PendingBoundedByCapacity == []C30_AtMostCapacityPending /\ [][C30_PushStep]_vars

\* C30 witness: 18 messages were pushed to a stream that has read none; it
\* has the newest 16 to yield.
C30_Witness ==
    \E s \in DOMAIN streams :
        /\ streams[s].received = <<>>
        /\ behind(s) = Capacity + 2
        /\ Len(drain(streams[s])) = Capacity
        /\ Head(drain(streams[s])) = channels[streams[s].chan].sent[3]

\* p is inside a call of ChatServer
in_call(p) == pc[p] \notin {"idle", "gh_ret"}

\* p waits for a lock of histories
blocked(p) == at_lock_step(p) /\ ~ENABLED lock_step(p)

\* The callers that hold the lock p is at: the Ref holders of the shard for
\* histories.entry(..), the guard holder of the room for .lock()
blockers(p) ==
    IF pc[p] \in {"sm_entry", "jc_entry"}
    THEN {q \in Procs \ {p} :
              /\ holds_ref(q)
              /\ determine_shard(local[q].chat_id) = determine_shard(local[p].chat_id)}
    ELSE IF pc[p] \in {"sm_wait", "gh_lock"}
    THEN {q \in Procs \ {p} : holds_guard(q) /\ local[q].chat_id = local[p].chat_id}
    ELSE {}

\* C31, state: the locks are not waited for in a cycle: a caller that waits
\* waits for a caller that holds the lock and that waits for nothing, or
\* for the holder of a Mutex that waits for nothing; the holder of a
\* Mutex never waits; so a call in progress can always take a step.
C31_NoCyclicWait ==
    /\ \A p \in Procs :
           blocked(p) =>
               /\ blockers(p) # {}
               /\ \A q \in blockers(p) :
                      /\ holds_guard(q) => ~blocked(q)
                      /\ blocked(q) =>
                             /\ p \notin blockers(q)
                             /\ \A r \in blockers(q) : ~blocked(r)
    /\ \A p \in Procs : holds_guard(p) => ~blocked(p)
    /\ (\E p \in Procs : in_call(p)) =>
           \E p \in Procs : in_call(p) /\ ENABLED (lock_step(p) \/ free_step(p))

\* C31, under fair scheduling: every call returns.
C31_EveryCallReturns == \A p \in Procs : in_call(p) ~> ~in_call(p)

\* C31: deadlock freedom: whatever send_message, join_chat, part_chat and
\* get_chat_history calls run concurrently on whatever rooms, with no lock
\* poisoned, the locks of the map and of the histories are not waited for
\* in a cycle, and under fair scheduling every call returns.
C31_DeadlockFree == []C31_NoCyclicWait /\ C31_EveryCallReturns

\* C31 witness: get_chat_history holds the Ref of a shard and waits for the
\* Mutex of its room, which a send_message holds for its push, and a
\* step of that send_message is what is enabled.
C31_Witness ==
    \E p, q \in Procs :
        /\ pc[p] = "gh_lock"
        /\ blocked(p)
        /\ pc[q] = "sm_push"
        /\ q \in blockers(p)
        /\ ENABLED free_step(q)

\* The loop of the connection p is running
in_loop(p) == ws[p] # NoWs /\ pc[p] \in {"ws_loop", "sm_lock", "sm_get", "sm_send"}

\* C32, state, at the head of the loop: a close frame, a protocol error and
\* the end of the inbound stream end the loop, and so do a ping and a parse
\* error whose answer the websocket did not take; a parse error that was
\* answered leaves the loop running and everything as it is; an item of the
\* broadcast stream ends the loop unless it is a message the websocket took.
C32_LoopEnds ==
    \A p \in Procs :
        pc[p] = "ws_loop" =>
            /\ \A ev \in IncomingEvents, sent \in BOOLEAN :
                   ENABLED (/\ handle_incoming_stream_event(p, ev, sent)
                            /\ pc'[p] = IF ev \in {"Close", "ProtocolError", "None"} \/ ~sent
                                        THEN "ws_part" ELSE "ws_loop")
            /\ ENABLED (handle_incoming_stream_event(p, "ParseError", TRUE)
                            /\ UNCHANGED vars)
            /\ \A sent \in BOOLEAN :
                   next_item(streams[ws[p].broadcast]).kind # "Pending" =>
                       ENABLED (/\ handle_outgoing_message(p, sent)
                                /\ pc'[p] =
                                       IF next_item(streams[ws[p].broadcast]).kind = "Message"
                                              /\ sent
                                       THEN "ws_loop" ELSE "ws_part")

\* C32, the steps of a connection: while its loop runs it calls no
\* part_chat; it leaves the loop from the head of the loop or on a failed
\* post; then it calls part_chat for the room it joined, once, and
\* returns.
C32_PartStep ==
    \A p \in Procs :
        /\ (in_loop(p) /\ pc'[p] # pc[p]) =>
               /\ broadcasts' = broadcasts
               /\ ws'[p].chat_id = ws[p].chat_id
               /\ pc'[p] = "ws_part" => pc[p] \in {"ws_loop", "sm_lock"}
               /\ (pc[p] = "sm_lock" /\ pc'[p] = "ws_part") =>
                      local[p].message \in failed'
        /\ (pc[p] = "ws_part" /\ pc'[p] # pc[p]) =>
               /\ pc'[p] = "ws_drop"
               /\ ws'[p] = ws[p]
               /\ broadcasts' = remove_if(broadcasts, ws[p].chat_id)
        /\ (pc[p] = "ws_drop" /\ pc'[p] # pc[p]) =>
               /\ pc'[p] = "idle"
               /\ ws'[p] = NoWs
               /\ broadcasts' = broadcasts

\* C32, under tasks that keep running: a connection that left its loop
\* calls part_chat and returns.
C32_PartFollows ==
    \A p \in Procs : (pc[p] = "ws_part") ~> (pc[p] = "ws_drop" \/ ws[p] = NoWs)

\* C32: every way the loop of a connection ends (close frame, protocol
\* error, end of the inbound stream, failed post, failed websocket send,
\* error from or end of the broadcast stream) is followed by exactly one
\* part_chat for the room connect_to_chat joined; part_chat is not called
\* while the loop runs; a parse error of an incoming frame does not end the
\* loop and posts nothing.
C32_LoopEndIsFollowedByPartChat ==
    []C32_LoopEnds /\ [][C32_PartStep]_vars /\ C32_PartFollows

\* C32 witness: the task of one connection has panicked in send_message;
\* the other connection of the room has left its loop on the post that
\* failed on the poisoned lock and has called part_chat; neither stream is
\* dropped yet.
C32_Witness ==
    \E m \in failed :
        \A p \in Procs :
            /\ pc[p] = "ws_drop"
            /\ m.chat_id = ws[p].chat_id
            /\ ws[p].broadcast \in DOMAIN streams

\* The stream of the connection p has yielded a lag signal
connection_lagged(p) ==
    /\ ws[p] # NoWs
    /\ ws[p].broadcast \in DOMAIN streams
    /\ \E i \in 1..Len(streams[ws[p].broadcast].received) :
           streams[ws[p].broadcast].received[i].kind = "Lagged"

\* C33 as stated: a lag signal is not a hard error for a websocket
\* connection: after its stream has yielded a lag signal the loop of the
\* connection is still running, and forwards what is posted afterwards.
C33_ConnectionSurvivesLag ==
    \A p \in Procs : connection_lagged(p) => in_loop(p)

\* C33 amended, state: the lag signal is the last item a connection takes
\* from its stream: the loop has been left, whatever the stream still has
\* to yield is not forwarded.
C33_LagIsLastItem ==
    \A p \in Procs :
        connection_lagged(p) =>
            /\ pc[p] \in {"ws_part", "ws_drop"}
            /\ Last(streams[ws[p].broadcast].received).kind = "Lagged"

\* C33 amended, the steps: the handler leaves the loop on the lag signal
\* (Some(Err(err)) => break), and a connection that has lagged calls
\* part_chat and drops its stream with the messages it had yet to yield.
C33_LagStep ==
    \A p \in Procs :
        /\ \A sent \in BOOLEAN :
               (handle_outgoing_message(p, sent)
                   /\ next_item(streams[ws[p].broadcast]).kind = "Lagged") =>
                   pc'[p] = "ws_part"
        /\ (connection_lagged(p) /\ pc'[p] # pc[p]) =>
               /\ streams' = streams \/ ws[p].broadcast \notin DOMAIN streams'
               /\ pc'[p] \in {"ws_drop", "idle"}

\* C33 amended: the stream goes on after a lag signal, the websocket
\* connection does not: its handler treats the lag signal as an error of the
\* stream, leaves the loop, calls part_chat and ends; nothing posted
\* afterwards, and nothing the channel kept, is forwarded to that client.
C33_LagEndsConnection == []C33_LagIsLastItem /\ [][C33_LagStep]_vars

\* C33 witness: 17 messages were posted while a connection took nothing from
\* its stream; it took the lag signal, left the loop and has called
\* part_chat; the 16 messages the channel kept are still on its stream.
C33_Witness ==
    \E p \in Procs :
        /\ connection_lagged(p)
        /\ pc[p] = "ws_drop"
        /\ streams[ws[p].broadcast].received = <<[kind |-> "Lagged", missed |-> 1]>>
        /\ Len(pending(streams[ws[p].broadcast])) = Capacity

====
